---- MODULE Spec2Model ----
(***************************************************************************)
(* Model of octopod-cli.py: the token store, the 401-renewing request      *)
(* wrapper safe_api_call, file resolution (reuse, HTTP upload, or SFTP     *)
(* upload followed by the reflection poll), and process_order (validation  *)
(* wait, order submission, completion wait, downloads).                    *)
(*                                                                         *)
(* Tokens are naturals: the k-th token response of the server carries      *)
(* access token k and refresh token k; 0 stands for None / an empty value. *)
(* Time is in seconds.                                                     *)
(***************************************************************************)
EXTENDS Integers, Sequences, FiniteSets, TLC

VARIABLES
    TOKEN_STORE,     \* [access, refresh]: the global token store
    issuedBy,        \* history: which token response wrote each field of TOKEN_STORE
    nIssued,         \* server: number of token responses that carried tokens
    tokLog,          \* history: the last auth()/refresh_tokens() call and its outcome
    retired,         \* history: access tokens replaced by a successful auth/refresh
    pc,              \* position of main()
    call,            \* the safe_api_call in progress (or the last one finished)
    sent,            \* history: the last request issued through safe_api_call
    check_exists,    \* args.check_if_file_exists
    local_file_path, \* args.file_to_process, as a sequence of path components
    file_size,       \* os.path.getsize(local_file_path), in bytes
    files,           \* server: records matching the base name before the run, in server order
    created,         \* server: the record created by this run's HTTP upload
    reflectAt,       \* server: time at which the SFTP-uploaded file becomes visible
    now,             \* the wall clock, time.time()
    start,           \* wait_for_file_to_appear: start
    file_id,         \* find_or_upload_file: file_id (0 = None)
    reused,          \* history: file_id came from the check_exists lookup
    ops,             \* history: how often each operation was called
    sftpArgs,        \* history: the arguments of the sftp_upload call
    err,             \* the exception that ended the run ("" = none)
    poll_interval,   \* args.poll_interval
    env,             \* what the network and the server can do in this run
    srv,             \* server: when and how the file validation and the order end
    seen,            \* history: the last file record and order record a check returned
    result_types_raw, \* process_order: result_types_raw
    remaining,       \* process_order: the part of parsed_types not yet iterated
    downloads,       \* history: the download attempts, in order
    side,            \* the two poll loops run side by side on one input
    ssh              \* sftp_upload: the state of ssh_client's connection

vars == <<TOKEN_STORE, issuedBy, nIssued, tokLog, retired, pc, call, sent,
          check_exists, local_file_path, file_size, files, created, reflectAt, now,
          start, file_id, reused, ops, sftpArgs, err, poll_interval, env, srv,
          seen, result_types_raw, remaining, downloads, side, ssh>>

tokenVars == <<TOKEN_STORE, issuedBy, nIssued, tokLog, retired>>
argVars   == <<check_exists, local_file_path, file_size, files, poll_interval, env>>
waitVars  == <<srv, seen, result_types_raw>>
loopVars  == <<remaining, downloads>>

-----------------------------------------------------------------------------
(* Bounds of the model *)

\* token responses the server hands out in one run
MaxIssue == 3
\* records with the same base name that the server holds before the run
MaxFiles == 2
\* distinct created_at values of those records
MaxStamp == 2
\* seconds a wrapped request takes when it is not instantaneous
LatencySec == 10

-----------------------------------------------------------------------------
(* Program constants *)

MAX_HTTP_SIZE_MB == 50
SFTP_REFLECTION_TIMEOUT_SEC == 300
SFTP_REFLECTION_POLL_SEC == 30
DEFAULT_MAX_RETRIES == 1
\* parse_args: --poll_interval default
DEFAULT_POLL_INTERVAL == 60
\* process_order: timeout_minutes=300 for both waits
TIMEOUT_MINUTES == 300

BytesPerMB == 1024 * 1024

\* parse_args: --sftp_folder default
DefaultSftpFolder == "octopod_cli_uploads"

-----------------------------------------------------------------------------
(* Inputs *)

Paths == { <<"sample.vcf">>, <<"data", "sample.vcf">> }

FileSizes == { 10 * BytesPerMB,
               MAX_HTTP_SIZE_MB * BytesPerMB - 1,
               MAX_HTTP_SIZE_MB * BytesPerMB,
               MAX_HTTP_SIZE_MB * BytesPerMB + 1,
               80 * BytesPerMB }

\* The server's state before the run: record i has id i.
FileLists ==
    UNION { { [i \in 1..n |-> [id |-> i, created_at |-> f[i]]] : f \in [1..n -> 1..MaxStamp] }
            : n \in 0..MaxFiles }

\* Reflection delays of the server after an SFTP upload; Never lies beyond the
\* end of every run.
Never == 100000
ReflectDelays == { 0, 45, 280, 300, Never }

Latencies == { 0, LatencySec }

\* 0 stands for a failure below HTTP (requests.exceptions.ConnectionError).
ConnError == 0
Statuses == { 200, 401, 404, 500, ConnError }

\* What the token endpoints can answer.
TokenReplies == { "both", "empty_refresh", "access_only", "no_access",
                  "http_error", "conn_error" }

\* args.poll_interval
PollIntervals == { 3600, 5000 }

\* File records as check_file_status returns them: while the server's check
\* runs, and the verdicts it can end with.
PendingRecord == [check_completed |-> FALSE, acceptable |-> FALSE, amount_of_samples |-> 0]
Verdicts == { [check_completed |-> TRUE,  acceptable |-> TRUE,  amount_of_samples |-> 2],
              [check_completed |-> TRUE,  acceptable |-> TRUE,  amount_of_samples |-> 0],
              [check_completed |-> TRUE,  acceptable |-> FALSE, amount_of_samples |-> 2],
              [check_completed |-> FALSE, acceptable |-> TRUE,  amount_of_samples |-> 2] }

\* Seconds from the start of a wait to the verdict / the terminal order status.
ValidDelays == { 0, 17999, Never }
OrderDelays == { 0, 4000, 20000, Never }

\* OrderRecord.status
SuccessStatuses == { "Completed", "Reports failed" }
FailureStatuses == { "Failed", "Canceled" }
NonTerminal == { "Running", "Model completed" }

\* Entries of result_types: a string, a dict with or without the key "type",
\* or something else (a number, null).
StrItem(t)  == [kind |-> "str",   has_type |-> FALSE, val |-> t]
DictItem(t) == [kind |-> "dict",  has_type |-> TRUE,  val |-> t]
BareDict    == [kind |-> "dict",  has_type |-> FALSE, val |-> ""]
OtherItem   == [kind |-> "other", has_type |-> FALSE, val |-> ""]

ResultLists == { <<>>,
                 << DictItem("SUMMARY_CHROMS"), StrItem("RAW_VCF") >>,
                 << StrItem("RAW_VCF"), OtherItem, DictItem("SUMMARY_CHROMS") >>,
                 << BareDict, StrItem("PDF") >> }

\* What the SFTP server does with each step of sftp_upload: connect, chdir into
\* the folder, mkdir of the folder, put.
SftpAnswers == [connect : BOOLEAN, chdir : BOOLEAN, mkdir : BOOLEAN, put : BOOLEAN]

\* the folder exists and everything works, or the connection is refused
SftpPlain == { [connect |-> TRUE, chdir |-> TRUE, mkdir |-> TRUE, put |-> TRUE],
               [connect |-> FALSE, chdir |-> TRUE, mkdir |-> TRUE, put |-> TRUE] }

\* The network and server behaviours a run draws from.
FullEnv == [lat |-> Latencies, replies |-> TokenReplies, reflect |-> ReflectDelays,
            issue |-> MaxIssue, valid |-> ValidDelays, order |-> OrderDelays,
            results |-> ResultLists, sftp |-> SftpPlain]
RunEnv == [FullEnv EXCEPT !.lat = {0},
                          !.replies = {"both", "http_error", "conn_error"},
                          !.reflect = {45, 280, Never},
                          !.issue = MaxIssue - 1]
\* for the termination of the waits: the server is ready at once or never
WaitEnv == [RunEnv EXCEPT !.replies = {"both", "conn_error"},
                          !.reflect = {0, Never},
                          !.valid = {0, Never},
                          !.order = {0, Never},
                          !.results = { <<StrItem("PDF")>> },
                          !.sftp = SftpAnswers]

-----------------------------------------------------------------------------
(* Pure helpers *)

\* os.path.basename
basename(path) == path[Len(path)]

\* requests.Response.raise_for_status
raise_for_status(status) == status >= 400 /\ status < 600

\* variants of the retry condition: without the retry budget, and for every error status
ShouldRenew_NoBudget(status, max_retries) == status = 401
ShouldRenew_AnyError(status, max_retries) == raise_for_status(status) /\ max_retries > 0

\* safe_api_call: the condition under which a failed request is renewed and retried
ShouldRenew(status, max_retries) == status = 401 /\ max_retries > 0

\* the callers' header: "Authorization": f"Bearer {TOKEN_STORE['access']}"
BuildHeaders(store) == store.access

\* variant: the retry keeps the header it was first called with
RetryHeaders_Stale(hdr, store) == hdr

\* safe_api_call: headers["Authorization"] = f"Bearer {TOKEN_STORE['access']}"
RetryHeaders(hdr, store) == store.access

\* variant: the boundary size goes to SFTP
UseHttp_Exclusive(size) == size < MAX_HTTP_SIZE_MB * BytesPerMB

\* find_or_upload_file: file_size_mb <= MAX_HTTP_SIZE_MB, with
\* file_size_mb = size / (1024 * 1024); the division by a power of two is exact.
UseHttp(size) == size <= MAX_HTTP_SIZE_MB * BytesPerMB

\* list.sort(key=created_at, reverse=True): stable, so equal keys keep their order
RECURSIVE InsertDesc(_, _)
InsertDesc(r, s) ==
    IF s = <<>> THEN <<r>>
    ELSE IF Head(s).created_at >= r.created_at
         THEN <<Head(s)>> \o InsertDesc(r, Tail(s))
         ELSE <<r>> \o s

RECURSIVE SortDesc(_)
SortDesc(s) ==
    IF s = <<>> THEN <<>>
    ELSE InsertDesc(s[Len(s)], SortDesc(SubSeq(s, 1, Len(s) - 1)))

\* variant: the lookup's answer is taken even when it is None
ReuseExisting_Always(existing_id) == TRUE

\* find_or_upload_file: if existing_id:
ReuseExisting(existing_id) == existing_id # 0

\* variant: the first record of the response, without the sort
NewestId_Unsorted(results) ==
    IF results = <<>> THEN 0 ELSE results[1].id

\* find_newest_file_id_by_name, after the response: None (0) or the newest id
NewestId(results) ==
    IF results = <<>> THEN 0 ELSE SortDesc(results)[1].id

\* variant: the number of samples is not looked at
IsValidated_AnySamples(status) == status.check_completed /\ status.acceptable

\* wait_for_file_validation: the readiness test on a status dict
IsValidated(status) ==
    status.check_completed /\ status.acceptable /\ status.amount_of_samples > 0

\* variant: a canceled order is not a failure
IsFailure_FailedOnly(status) == status = "Failed"

\* variant: "Model completed" counts as finished
IsSuccess_ModelCompleted(status) ==
    status \in {"Completed", "Reports failed", "Model completed"}

\* wait_for_order_completion: the two membership tests
IsSuccess(status) == status \in {"Completed", "Reports failed"}
IsFailure(status) == status \in {"Failed", "Canceled"}

\* variant: no budget at all
TimedOut_AtOnce(elapsed) == elapsed >= 0

\* variant: the budget is twice as long
TimedOut_Late(elapsed) == elapsed > 2 * TIMEOUT_MINUTES * 60

\* both waits: max_time = timeout_minutes * 60; (time.time() - start_time) > max_time
TimedOut(elapsed) == elapsed > TIMEOUT_MINUTES * 60

\* variant: no entry is dropped
ParseTypes_KeepAll(raw) == [i \in 1..Len(raw) |-> raw[i].val]

\* process_order: the loop that builds parsed_types
RECURSIVE ParseTypes(_)
ParseTypes(raw) ==
    IF raw = <<>> THEN <<>>
    ELSE LET item == Head(raw) IN
         IF item.kind = "dict" /\ item.has_type THEN <<item.val>> \o ParseTypes(Tail(raw))
         ELSE IF item.kind = "str" THEN <<item.val>> \o ParseTypes(Tail(raw))
         ELSE ParseTypes(Tail(raw))

\* What the auth / refresh code does with a reply: the outcome ...
TokenOutcome(reply) ==
    CASE reply \in {"both", "empty_refresh"} -> "ok"
      [] reply \in {"access_only", "no_access"} -> "KeyError"
      [] reply = "http_error" -> "HTTPError"
      [] reply = "conn_error" -> "ConnectionError"

\* ... and the store it leaves: access is assigned before refresh is read
StoreAfter(store, reply, k) ==
    CASE reply = "both" -> [access |-> k, refresh |-> k]
      [] reply = "empty_refresh" -> [access |-> k, refresh |-> 0]
      [] reply = "access_only" -> [store EXCEPT !.access = k]
      [] OTHER -> store

IssuedAfter(by, reply, k) ==
    CASE reply \in {"both", "empty_refresh"} -> [access |-> k, refresh |-> k]
      [] reply = "access_only" -> [by EXCEPT !.access = k]
      [] OTHER -> by

CarriesTokens(reply) == reply \in {"both", "empty_refresh", "access_only"}

\* except requests.exceptions.RequestException
IsRequestException(e) == e \in {"HTTPError", "ConnectionError"}

-----------------------------------------------------------------------------
(* Server *)

\* the id and the record the server gives to a file uploaded in this run
NewId == Len(files) + 1
NewRecord == [id |-> NewId, created_at |-> MaxStamp + 1]

\* the SFTP-uploaded file is visible through the API at time t
Reflected(t) == reflectAt >= 0 /\ t >= reflectAt

\* GET /data/files?file=<name>: the matching records at time t
ServerResults(t) ==
    files \o created \o (IF Reflected(t) THEN <<NewRecord>> ELSE <<>>)

\* GET /data/files?file=<id>: the record of the file at time t
FileRecordAt(t) == IF srv.validAt <= t THEN srv.verdict ELSE PendingRecord

\* GET /exec/orders?filter=<id>: the records the order can show at time t
OrderRecordsAt(t) ==
    IF srv.doneAt <= t
    THEN { [status |-> srv.final, result_types |-> srv.rtypes] }
    ELSE { [status |-> st, result_types |-> <<>>] : st \in NonTerminal }

\* what a 2xx response to a request of the given kind, served at time t, holds;
\* a query by id may also find nothing
Responses(kind, t) ==
    CASE kind = "find" -> { ServerResults(t) }
      [] kind = "upload" -> { <<NewRecord>> }
      [] kind = "file_status" -> { <<>>, <<FileRecordAt(t)>> }
      [] kind = "order_status" -> { <<>> } \cup { <<r>> : r \in OrderRecordsAt(t) }
      [] OTHER -> { <<>> }

-----------------------------------------------------------------------------
(* Initial state *)

\* no SSH connection has been made
NoSession == [state |-> "none", connected |-> FALSE, chdir_failed |-> FALSE,
              mkdirs |-> 0, puts |-> 0]

\* no loops are run side by side
NoSide == [interval |-> 0, timeout |-> 0, readyAt |-> 0,
           appear |-> [out |-> "", t |-> 0, at |-> <<>>],
           validation |-> [out |-> "", t |-> 0, at |-> <<>>]]

\* nothing is known yet about the validation and the order
NoServer == [validAt |-> -1, verdict |-> <<>>, doneAt |-> -1, final |-> "",
             rtypes |-> <<>>]

NoCall == [st |-> "idle", kind |-> "none", max_retries |-> 0, hdr |-> 0,
           issued |-> 0, refreshes |-> 0, auths |-> 0, first |-> -1, last |-> -1,
           refreshErr |-> "", resp |-> <<>>, fh |-> "none", bodies |-> <<>>]

\* upload_file_http: with open(local_file_path, "rb") as f, passed as files={"file": f}
NewCall(kind) == [NoCall EXCEPT !.st = "send", !.kind = kind,
                                !.max_retries = DEFAULT_MAX_RETRIES,
                                !.hdr = BuildHeaders(TOKEN_STORE),
                                !.fh = IF kind = "upload" THEN "start" ELSE "none"]

\* What func(url, **kwargs) sends: the upload reads the file object from its
\* current position to the end; every other request is built from the same
\* kwargs values each time.
Payload(kind, fh) ==
    IF kind = "upload"
    THEN IF fh = "start" THEN "file content" ELSE "empty file"
    ELSE "kwargs"

Init ==
    /\ TOKEN_STORE = [access |-> 0, refresh |-> 0]
    /\ issuedBy = [access |-> 0, refresh |-> 0]
    /\ nIssued = 0
    /\ tokLog = [op |-> "none", outcome |-> "", before |-> [access |-> 0, refresh |-> 0]]
    /\ retired = {}
    /\ pc = "start"
    /\ call = NoCall
    /\ sent = [bearer |-> 0, store |-> [access |-> 0, refresh |-> 0], retired |-> {},
               auth |-> 0, refresh |-> 0]
    /\ check_exists \in BOOLEAN
    /\ local_file_path \in Paths
    /\ file_size \in FileSizes
    /\ files \in FileLists
    /\ created = <<>>
    /\ reflectAt = -1
    /\ now = 0
    /\ start = 0
    /\ file_id = 0
    /\ reused = FALSE
    /\ ops = [auth |-> 0, refresh |-> 0, find_existing |-> 0, http |-> 0,
              sftp |-> 0, poll |-> 0, validate |-> 0, vsleep |-> 0, submit |-> 0,
              order |-> 0, osleep |-> 0, nonterminal |-> 0, download |-> 0]
    /\ sftpArgs = <<>>
    /\ err = ""
    /\ poll_interval = DEFAULT_POLL_INTERVAL
    /\ env = FullEnv
    /\ srv = NoServer
    /\ seen = [file |-> <<>>, order |-> <<>>]
    /\ result_types_raw = <<>>
    /\ remaining = <<>>
    /\ downloads = <<>>
    /\ side = NoSide
    /\ ssh = NoSession

-----------------------------------------------------------------------------
(* auth() and refresh_tokens() *)

\* The effect of one token call (auth or refresh) answered with `reply`.
TokenCall(op, reply) ==
    /\ CarriesTokens(reply) => nIssued < env.issue
    /\ LET k == nIssued + 1 IN
       /\ TOKEN_STORE' = StoreAfter(TOKEN_STORE, reply, k)
       /\ issuedBy' = IssuedAfter(issuedBy, reply, k)
       /\ nIssued' = IF CarriesTokens(reply) THEN k ELSE nIssued
       /\ tokLog' = [op |-> op, outcome |-> TokenOutcome(reply), before |-> TOKEN_STORE]
       /\ retired' = IF TokenOutcome(reply) = "ok" /\ TOKEN_STORE.access # 0
                     THEN retired \cup {TOKEN_STORE.access} ELSE retired
       /\ ops' = [ops EXCEPT ![op] = @ + 1]

\* variant: the exception is reported and the run goes on
Abort_Swallow(e) ==
    /\ pc' = pc
    /\ err' = e

\* the run ends with exception e
Abort(e) ==
    /\ pc' = "aborted"
    /\ err' = e

\* main: auth()
MainAuth ==
    /\ pc = "start"
    /\ \E reply \in env.replies :
        /\ TokenCall("auth", reply)
        /\ IF TokenOutcome(reply) = "ok"
           THEN pc' = "resolve" /\ err' = err
           ELSE Abort(TokenOutcome(reply))
    /\ UNCHANGED <<side, ssh, call, sent, argVars, created, reflectAt, now, start, file_id,
                   reused, sftpArgs, waitVars, loopVars>>

-----------------------------------------------------------------------------
(* safe_api_call *)

Calling == pc \in {"find_existing", "http_upload", "poll_find", "validating",
                   "submitting", "order_wait", "downloading"}

\* An exception e leaves safe_api_call: process_order catches requests.HTTPError
\* around download_result and goes on with the next result type; everywhere
\* else nothing catches it.
Raise(e) ==
    IF pc = "downloading" /\ e = "HTTPError"
    THEN /\ pc' = "download"
         /\ err' = err
         /\ downloads' = Append(downloads, [rt |-> Head(remaining), ok |-> FALSE])
         /\ remaining' = Tail(remaining)
    ELSE /\ Abort(e)
         /\ UNCHANGED loopVars

\* func(url, **kwargs); resp.raise_for_status()
CallSend ==
    /\ Calling
    /\ call.st = "send"
    /\ \E status \in Statuses, d \in env.lat :
        /\ now' = now + d
        /\ sent' = [bearer |-> call.hdr, store |-> TOKEN_STORE, retired |-> retired,
                    auth |-> ops.auth, refresh |-> ops.refresh]
        /\ LET c == [call EXCEPT !.issued = @ + 1,
                                 !.first = IF call.issued = 0 THEN status ELSE @,
                                 !.last = status,
                                 !.bodies = Append(@, Payload(call.kind, call.fh)),
                                 !.fh = IF call.kind = "upload" THEN "eof" ELSE @]
           IN
           IF status = ConnError
           THEN /\ call' = [c EXCEPT !.st = "err"]
                /\ Raise("ConnectionError")
                /\ UNCHANGED created
           ELSE IF raise_for_status(status)
           THEN IF ShouldRenew(status, call.max_retries)
                THEN /\ call' = [c EXCEPT !.st = "refresh"]
                     /\ UNCHANGED <<pc, err, created, loopVars>>
                ELSE /\ call' = [c EXCEPT !.st = "err"]
                     /\ Raise("HTTPError")
                     /\ UNCHANGED created
           ELSE /\ \E r \in Responses(call.kind, now) :
                      call' = [c EXCEPT !.st = "ok", !.resp = r]
                /\ created' = IF call.kind = "upload" THEN <<NewRecord>> ELSE created
                /\ UNCHANGED <<pc, err, loopVars>>
    /\ UNCHANGED <<side, ssh, tokenVars, ops, argVars, reflectAt, start, file_id, reused, sftpArgs,
                   waitVars>>

\* the header update and the recursive call with max_retries - 1
Retry(c) == [c EXCEPT !.st = "send", !.max_retries = @ - 1,
                      !.hdr = RetryHeaders(c.hdr, TOKEN_STORE')]

\* refresh_tokens(), called by safe_api_call after a 401
CallRefresh ==
    /\ Calling
    /\ call.st = "refresh"
    /\ IF TOKEN_STORE.refresh = 0
       THEN \* RuntimeError("No refresh token available; cannot refresh.")
            /\ tokLog' = [op |-> "refresh", outcome |-> "RuntimeError", before |-> TOKEN_STORE]
            /\ ops' = [ops EXCEPT !.refresh = @ + 1]
            /\ call' = [call EXCEPT !.st = "err", !.refreshes = @ + 1,
                                    !.refreshErr = "RuntimeError"]
            /\ Raise("RuntimeError")
            /\ UNCHANGED <<TOKEN_STORE, issuedBy, nIssued, retired>>
       ELSE \E reply \in env.replies :
            /\ TokenCall("refresh", reply)
            /\ LET e == TokenOutcome(reply)
                   c == [call EXCEPT !.refreshes = @ + 1,
                                     !.refreshErr = IF e = "ok" THEN "" ELSE e]
               IN
               IF e = "ok"
               THEN call' = Retry(c) /\ UNCHANGED <<pc, err, loopVars>>
               ELSE IF IsRequestException(e)
               THEN call' = [c EXCEPT !.st = "reauth"] /\ UNCHANGED <<pc, err, loopVars>>
               ELSE call' = [c EXCEPT !.st = "err"] /\ Raise(e)
    /\ UNCHANGED <<side, ssh, sent, argVars, created, reflectAt, now, start, file_id, reused, sftpArgs,
                   waitVars>>

\* auth(), the fallback of safe_api_call when the refresh failed
CallReauth ==
    /\ Calling
    /\ call.st = "reauth"
    /\ \E reply \in env.replies :
        /\ TokenCall("auth", reply)
        /\ LET e == TokenOutcome(reply)
               c == [call EXCEPT !.auths = @ + 1]
           IN
           IF e = "ok"
           THEN call' = Retry(c) /\ UNCHANGED <<pc, err, loopVars>>
           ELSE call' = [c EXCEPT !.st = "err"] /\ Raise(e)
    /\ UNCHANGED <<side, ssh, sent, argVars, created, reflectAt, now, start, file_id, reused, sftpArgs,
                   waitVars>>

-----------------------------------------------------------------------------
(* find_or_upload_file *)

\* entry: if check_exists, find_newest_file_id_by_name(file_basename)
ResolveBegin ==
    /\ pc = "resolve"
    /\ IF check_exists
       THEN /\ call' = NewCall("find")
            /\ ops' = [ops EXCEPT !.find_existing = @ + 1]
            /\ pc' = "find_existing"
       ELSE /\ pc' = "measure"
            /\ UNCHANGED <<call, ops>>
    /\ UNCHANGED <<side, ssh, tokenVars, sent, argVars, created, reflectAt, now, start, file_id,
                   reused, sftpArgs, err,
                   waitVars, loopVars>>

\* the lookup returned: reuse the newest match, or go on to the upload
FindExistingReturn ==
    /\ pc = "find_existing"
    /\ call.st = "ok"
    /\ LET existing_id == NewestId(call.resp) IN
       IF ReuseExisting(existing_id)
       THEN /\ file_id' = existing_id
            /\ reused' = TRUE
            /\ pc' = "resolved"
       ELSE /\ pc' = "measure"
            /\ UNCHANGED <<file_id, reused>>
    /\ UNCHANGED <<side, ssh, tokenVars, call, sent, argVars, created, reflectAt, now, start,
                   ops, sftpArgs, err,
                   waitVars, loopVars>>

\* if not file_id: the size decides the transport; the HTTP branch starts the upload
Measure ==
    /\ pc = "measure"
    /\ IF UseHttp(file_size)
       THEN /\ call' = NewCall("upload")
            /\ ops' = [ops EXCEPT !.http = @ + 1]
            /\ pc' = "http_upload"
       ELSE /\ pc' = "sftp"
            /\ UNCHANGED <<call, ops>>
    /\ UNCHANGED <<side, ssh, tokenVars, sent, argVars, created, reflectAt, now, start, file_id,
                   reused, sftpArgs, err,
                   waitVars, loopVars>>

\* upload_file_http returned file_info["id"]
HttpUploadReturn ==
    /\ pc = "http_upload"
    /\ call.st = "ok"
    /\ file_id' = call.resp[1].id
    /\ pc' = "resolved"
    /\ UNCHANGED <<side, ssh, tokenVars, call, sent, argVars, created, reflectAt, now, start,
                   reused, ops, sftpArgs, err,
                   waitVars, loopVars>>

\* sftp.mkdir is called in the handler of the IOError of sftp.chdir
MkdirCalled(ans) == ans.connect /\ ~ans.chdir
\* sftp.put is reached when the folder was entered; after mkdir the second
\* chdir succeeds
PutCalled(ans) == ans.connect /\ (ans.chdir \/ ans.mkdir)
SftpSucceeds(ans) == PutCalled(ans) /\ ans.put

\* variant: the connection is closed only after a successful put
SessionAfter_NoFinally(ans) ==
    [state |-> IF ~ans.connect THEN "none"
               ELSE IF SftpSucceeds(ans) THEN "closed" ELSE "open",
     connected |-> ans.connect,
     chdir_failed |-> MkdirCalled(ans),
     mkdirs |-> IF MkdirCalled(ans) THEN 1 ELSE 0,
     puts |-> IF PutCalled(ans) THEN 1 ELSE 0]

\* ssh_client.connect(...); try: ... finally: ssh_client.close()
SessionAfter(ans) ==
    [state |-> IF ans.connect THEN "closed" ELSE "none",
     connected |-> ans.connect,
     chdir_failed |-> MkdirCalled(ans),
     mkdirs |-> IF MkdirCalled(ans) THEN 1 ELSE 0,
     puts |-> IF PutCalled(ans) THEN 1 ELSE 0]

\* sftp_upload(...), then the entry of wait_for_file_to_appear: start = time.time()
SftpUpload ==
    /\ pc = "sftp"
    /\ ops' = [ops EXCEPT !.sftp = @ + 1]
    /\ sftpArgs' = Append(sftpArgs, [remote_filename |-> basename(local_file_path),
                                     sftp_folder |-> DefaultSftpFolder])
    /\ \E ans \in env.sftp :
        /\ ssh' = SessionAfter(ans)
        /\ IF SftpSucceeds(ans)
           THEN /\ \E d \in env.reflect : reflectAt' = now + d
                /\ start' = now
                /\ pc' = "poll_test"
                /\ err' = err
           ELSE /\ Abort(IF ans.connect THEN "IOError" ELSE "SSHException")
                /\ UNCHANGED <<reflectAt, start>>
    /\ UNCHANGED <<side, tokenVars, call, sent, argVars, created, now, file_id, reused,
                   waitVars, loopVars>>

\* while (time.time() - start) < timeout_sec: ... ; return None => RuntimeError
PollTest ==
    /\ pc = "poll_test"
    /\ IF (now - start) < SFTP_REFLECTION_TIMEOUT_SEC
       THEN /\ call' = NewCall("find")
            /\ ops' = [ops EXCEPT !.poll = @ + 1]
            /\ pc' = "poll_find"
            /\ err' = err
       ELSE /\ Abort("ReflectionTimeout")
            /\ UNCHANGED <<call, ops>>
    /\ UNCHANGED <<side, ssh, tokenVars, sent, argVars, created, reflectAt, now, start, file_id,
                   reused, sftpArgs,
                   waitVars, loopVars>>

\* the check returned: return the id, or time.sleep(poll_sec) and test again
PollFindReturn ==
    /\ pc = "poll_find"
    /\ call.st = "ok"
    /\ LET id == NewestId(call.resp) IN
       IF id # 0
       THEN /\ file_id' = id
            /\ pc' = "resolved"
            /\ now' = now
       ELSE /\ now' = now + SFTP_REFLECTION_POLL_SEC
            /\ pc' = "poll_test"
            /\ UNCHANGED file_id
    /\ UNCHANGED <<side, ssh, tokenVars, call, sent, argVars, created, reflectAt, start, reused,
                   ops, sftpArgs, err,
                   waitVars, loopVars>>

-----------------------------------------------------------------------------

Next ==
    \/ MainAuth
    \/ CallSend
    \/ CallRefresh
    \/ CallReauth
    \/ ResolveBegin
    \/ FindExistingReturn
    \/ Measure
    \/ HttpUploadReturn
    \/ SftpUpload
    \/ PollTest
    \/ PollFindReturn

Spec == Init /\ [][Next]_vars

-----------------------------------------------------------------------------
(* process_order *)

\* variant: the order is submitted without the validation wait
ValidateBegin_Skip ==
    /\ pc = "resolved"
    /\ call' = NewCall("submit")
    /\ ops' = [ops EXCEPT !.submit = @ + 1]
    /\ pc' = "submitting"
    /\ UNCHANGED <<side, ssh, tokenVars, sent, argVars, created, reflectAt, now, start, file_id,
                   reused, sftpArgs, err, waitVars, loopVars>>

\* entry of wait_for_file_validation: start_time = time.time(), first check
ValidateBegin ==
    /\ pc = "resolved"
    /\ \E d \in env.valid, v \in Verdicts :
          srv' = [srv EXCEPT !.validAt = now + d, !.verdict = v]
    /\ start' = now
    /\ call' = NewCall("file_status")
    /\ ops' = [ops EXCEPT !.validate = @ + 1]
    /\ pc' = "validating"
    /\ UNCHANGED <<side, ssh, tokenVars, sent, argVars, created, reflectAt, now, file_id, reused,
                   sftpArgs, err, seen, result_types_raw, loopVars>>

\* variant: a missing record counts as not ready
ValidateReturn_NotFoundWaits ==
    /\ pc = "validating"
    /\ call.st = "ok"
    /\ seen' = [seen EXCEPT !.file = call.resp]
    /\ IF call.resp = <<>>
       THEN /\ now' = now + poll_interval
            /\ call' = NewCall("file_status")
            /\ ops' = [ops EXCEPT !.validate = @ + 1, !.vsleep = @ + 1]
            /\ UNCHANGED <<pc, err>>
       ELSE IF IsValidated(call.resp[1])
       THEN /\ call' = NewCall("submit")
            /\ ops' = [ops EXCEPT !.submit = @ + 1]
            /\ pc' = "submitting"
            /\ UNCHANGED <<err, now>>
       ELSE IF TimedOut(now - start)
       THEN /\ Abort("ValidationTimeout")
            /\ UNCHANGED <<call, ops, now>>
       ELSE /\ now' = now + poll_interval
            /\ call' = NewCall("file_status")
            /\ ops' = [ops EXCEPT !.validate = @ + 1, !.vsleep = @ + 1]
            /\ UNCHANGED <<pc, err>>
    /\ UNCHANGED <<side, ssh, tokenVars, sent, argVars, created, reflectAt, start, file_id, reused,
                   sftpArgs, srv, result_types_raw, loopVars>>

\* check_file_status returned: not found, ready (then submit_order is called),
\* timed out, or sleep and check again
ValidateReturn ==
    /\ pc = "validating"
    /\ call.st = "ok"
    /\ seen' = [seen EXCEPT !.file = call.resp]
    /\ IF call.resp = <<>>
       THEN /\ Abort("FileNotFound")
            /\ UNCHANGED <<call, ops, now>>
       ELSE IF IsValidated(call.resp[1])
       THEN /\ call' = NewCall("submit")
            /\ ops' = [ops EXCEPT !.submit = @ + 1]
            /\ pc' = "submitting"
            /\ UNCHANGED <<err, now>>
       ELSE IF TimedOut(now - start)
       THEN /\ Abort("ValidationTimeout")
            /\ UNCHANGED <<call, ops, now>>
       ELSE /\ now' = now + poll_interval
            /\ call' = NewCall("file_status")
            /\ ops' = [ops EXCEPT !.validate = @ + 1, !.vsleep = @ + 1]
            /\ UNCHANGED <<pc, err>>
    /\ UNCHANGED <<side, ssh, tokenVars, sent, argVars, created, reflectAt, start, file_id, reused,
                   sftpArgs, srv, result_types_raw, loopVars>>

\* submit_order returned the order id; entry of wait_for_order_completion
SubmitReturn ==
    /\ pc = "submitting"
    /\ call.st = "ok"
    /\ \E d \in env.order, f \in SuccessStatuses \cup FailureStatuses, l \in env.results :
          srv' = [srv EXCEPT !.doneAt = now + d, !.final = f, !.rtypes = l]
    /\ start' = now
    /\ call' = NewCall("order_status")
    /\ ops' = [ops EXCEPT !.order = @ + 1]
    /\ pc' = "order_wait"
    /\ UNCHANGED <<side, ssh, tokenVars, sent, argVars, created, reflectAt, now, file_id, reused,
                   sftpArgs, err, seen, result_types_raw, loopVars>>

\* check_order_status returned: not found, completed (parsed_types is built),
\* failed, timed out, or sleep and check again
OrderReturn ==
    /\ pc = "order_wait"
    /\ call.st = "ok"
    /\ seen' = [seen EXCEPT !.order = call.resp]
    /\ IF call.resp = <<>>
       THEN /\ Abort("OrderNotFound")
            /\ UNCHANGED <<call, ops, now, result_types_raw, remaining>>
       ELSE LET info == call.resp[1] IN
            IF IsSuccess(info.status)
            THEN /\ result_types_raw' = info.result_types
                 /\ remaining' = ParseTypes(info.result_types)
                 /\ pc' = "download"
                 /\ UNCHANGED <<call, ops, now, err>>
            ELSE IF IsFailure(info.status)
            THEN /\ Abort("OrderFailed")
                 /\ UNCHANGED <<call, ops, now, result_types_raw, remaining>>
            ELSE IF TimedOut(now - start)
            THEN /\ Abort("OrderTimeout")
                 /\ UNCHANGED <<call, ops, now, result_types_raw, remaining>>
            ELSE /\ now' = now + poll_interval
                 /\ call' = NewCall("order_status")
                 /\ ops' = [ops EXCEPT !.order = @ + 1, !.osleep = @ + 1,
                                       !.nonterminal = @ + 1]
                 /\ UNCHANGED <<pc, err, result_types_raw, remaining>>
    /\ UNCHANGED <<side, ssh, tokenVars, sent, argVars, created, reflectAt, start, file_id, reused,
                   sftpArgs, srv, downloads>>

\* for rt in parsed_types: download_result(order_id, rt, download_folder)
DownloadNext ==
    /\ pc = "download"
    /\ IF remaining = <<>>
       THEN /\ pc' = "done"
            /\ UNCHANGED <<call, ops>>
       ELSE /\ call' = NewCall("download")
            /\ ops' = [ops EXCEPT !.download = @ + 1]
            /\ pc' = "downloading"
    /\ UNCHANGED <<side, ssh, tokenVars, sent, argVars, created, reflectAt, now, start, file_id,
                   reused, sftpArgs, err, waitVars, loopVars>>

\* download_result wrote the file
DownloadReturn ==
    /\ pc = "downloading"
    /\ call.st = "ok"
    /\ downloads' = Append(downloads, [rt |-> Head(remaining), ok |-> TRUE])
    /\ remaining' = Tail(remaining)
    /\ pc' = "download"
    /\ UNCHANGED <<side, ssh, tokenVars, call, sent, argVars, created, reflectAt, now, start,
                   file_id, reused, ops, sftpArgs, err, waitVars>>

-----------------------------------------------------------------------------
(* The whole run *)

\* One path, a small and a large file, no or one record on the server.
InitRun ==
    /\ TOKEN_STORE = [access |-> 0, refresh |-> 0]
    /\ issuedBy = [access |-> 0, refresh |-> 0]
    /\ nIssued = 0
    /\ tokLog = [op |-> "none", outcome |-> "", before |-> [access |-> 0, refresh |-> 0]]
    /\ retired = {}
    /\ pc = "start"
    /\ call = NoCall
    /\ sent = [bearer |-> 0, store |-> [access |-> 0, refresh |-> 0], retired |-> {},
               auth |-> 0, refresh |-> 0]
    /\ check_exists \in BOOLEAN
    /\ local_file_path = <<"data", "sample.vcf">>
    /\ file_size \in { 10 * BytesPerMB, 80 * BytesPerMB }
    /\ files \in { <<>>, <<[id |-> 1, created_at |-> 1]>> }
    /\ created = <<>>
    /\ reflectAt = -1
    /\ now = 0
    /\ start = 0
    /\ file_id = 0
    /\ reused = FALSE
    /\ ops = [auth |-> 0, refresh |-> 0, find_existing |-> 0, http |-> 0,
              sftp |-> 0, poll |-> 0, validate |-> 0, vsleep |-> 0, submit |-> 0,
              order |-> 0, osleep |-> 0, nonterminal |-> 0, download |-> 0]
    /\ sftpArgs = <<>>
    /\ err = ""
    /\ poll_interval \in PollIntervals
    /\ env = RunEnv
    /\ srv = NoServer
    /\ seen = [file |-> <<>>, order |-> <<>>]
    /\ result_types_raw = <<>>
    /\ remaining = <<>>
    /\ downloads = <<>>
    /\ side = NoSide
    /\ ssh = NoSession

NextRun ==
    \/ Next
    \/ ValidateBegin
    \/ ValidateReturn
    \/ SubmitReturn
    \/ OrderReturn
    \/ DownloadNext
    \/ DownloadReturn

SpecRun == InitRun /\ [][NextRun]_vars

\* The runs of InitRun against a server that is ready at once or never. The
\* interpreter always takes the next step of the run, and every sleep ends.
InitWait ==
    /\ TOKEN_STORE = [access |-> 0, refresh |-> 0]
    /\ issuedBy = [access |-> 0, refresh |-> 0]
    /\ nIssued = 0
    /\ tokLog = [op |-> "none", outcome |-> "", before |-> [access |-> 0, refresh |-> 0]]
    /\ retired = {}
    /\ pc = "start"
    /\ call = NoCall
    /\ sent = [bearer |-> 0, store |-> [access |-> 0, refresh |-> 0], retired |-> {},
               auth |-> 0, refresh |-> 0]
    /\ check_exists \in BOOLEAN
    /\ local_file_path = <<"data", "sample.vcf">>
    /\ file_size \in { 10 * BytesPerMB, 80 * BytesPerMB }
    /\ files = <<>>
    /\ created = <<>>
    /\ reflectAt = -1
    /\ now = 0
    /\ start = 0
    /\ file_id = 0
    /\ reused = FALSE
    /\ ops = [auth |-> 0, refresh |-> 0, find_existing |-> 0, http |-> 0,
              sftp |-> 0, poll |-> 0, validate |-> 0, vsleep |-> 0, submit |-> 0,
              order |-> 0, osleep |-> 0, nonterminal |-> 0, download |-> 0]
    /\ sftpArgs = <<>>
    /\ err = ""
    /\ poll_interval \in PollIntervals
    /\ env = WaitEnv
    /\ srv = NoServer
    /\ seen = [file |-> <<>>, order |-> <<>>]
    /\ result_types_raw = <<>>
    /\ remaining = <<>>
    /\ downloads = <<>>
    /\ side = NoSide
    /\ ssh = NoSession

SpecWait == InitWait /\ [][NextRun]_vars /\ WF_vars(NextRun)

-----------------------------------------------------------------------------
(* The two poll loops side by side *)

\* Both loops start at time 0 and see the same check results: not ready before
\* side.readyAt, ready from then on. Checks take no time.
SideIntervals == { SFTP_REFLECTION_POLL_SEC, 100 }
SideTimeouts == { SFTP_REFLECTION_TIMEOUT_SEC }
SideReadyTimes == ReflectDelays

ReadyAt(t) == t >= side.readyAt

\* one iteration of wait_for_file_to_appear:
\*   while (time.time() - start) < timeout_sec: check; return if found; sleep
\*   return None
AppearIteration ==
    /\ side.appear.out = ""
    /\ LET l == side.appear IN
       IF l.t < side.timeout
       THEN IF ReadyAt(l.t)
            THEN side' = [side EXCEPT !.appear.out = "ready",
                                      !.appear.at = Append(l.at, l.t)]
            ELSE side' = [side EXCEPT !.appear.t = l.t + side.interval,
                                      !.appear.at = Append(l.at, l.t)]
       ELSE side' = [side EXCEPT !.appear.out = "timeout"]
    /\ UNCHANGED <<tokenVars, pc, call, sent, argVars, created, reflectAt, now, start,
                   file_id, reused, ops, sftpArgs, err, waitVars, loopVars, ssh>>

\* one iteration of wait_for_file_validation / wait_for_order_completion:
\*   while True: check; return if ready; raise if elapsed > max_time; sleep
ValidationIteration ==
    /\ side.validation.out = ""
    /\ LET l == side.validation IN
       IF ReadyAt(l.t)
       THEN side' = [side EXCEPT !.validation.out = "ready",
                                 !.validation.at = Append(l.at, l.t)]
       ELSE IF l.t > side.timeout
       THEN side' = [side EXCEPT !.validation.out = "timeout",
                                 !.validation.at = Append(l.at, l.t)]
       ELSE side' = [side EXCEPT !.validation.t = l.t + side.interval,
                                 !.validation.at = Append(l.at, l.t)]
    /\ UNCHANGED <<tokenVars, pc, call, sent, argVars, created, reflectAt, now, start,
                   file_id, reused, ops, sftpArgs, err, waitVars, loopVars, ssh>>

InitSide ==
    /\ TOKEN_STORE = [access |-> 0, refresh |-> 0]
    /\ issuedBy = [access |-> 0, refresh |-> 0]
    /\ nIssued = 0
    /\ tokLog = [op |-> "none", outcome |-> "", before |-> [access |-> 0, refresh |-> 0]]
    /\ retired = {}
    /\ pc = "side_by_side"
    /\ call = NoCall
    /\ sent = [bearer |-> 0, store |-> [access |-> 0, refresh |-> 0], retired |-> {},
               auth |-> 0, refresh |-> 0]
    /\ check_exists = FALSE
    /\ local_file_path = <<"sample.vcf">>
    /\ file_size = 80 * BytesPerMB
    /\ files = <<>>
    /\ created = <<>>
    /\ reflectAt = -1
    /\ now = 0
    /\ start = 0
    /\ file_id = 0
    /\ reused = FALSE
    /\ ops = [auth |-> 0, refresh |-> 0, find_existing |-> 0, http |-> 0,
              sftp |-> 0, poll |-> 0, validate |-> 0, vsleep |-> 0, submit |-> 0,
              order |-> 0, osleep |-> 0, nonterminal |-> 0, download |-> 0]
    /\ sftpArgs = <<>>
    /\ err = ""
    /\ poll_interval = DEFAULT_POLL_INTERVAL
    /\ env = FullEnv
    /\ srv = NoServer
    /\ seen = [file |-> <<>>, order |-> <<>>]
    /\ result_types_raw = <<>>
    /\ remaining = <<>>
    /\ downloads = <<>>
    /\ \E i \in SideIntervals, to \in SideTimeouts, r \in SideReadyTimes :
          side = [NoSide EXCEPT !.interval = i, !.timeout = to, !.readyAt = r]
    /\ ssh = NoSession

NextSide ==
    \/ AppearIteration
    \/ ValidationIteration

SpecSide == InitSide /\ [][NextSide]_vars

-----------------------------------------------------------------------------
(* Properties of safe_api_call *)

CallFinished == call.st \in {"ok", "err"}
Non401Error(status) == raise_for_status(status) /\ status # 401

\* C1 as stated, on the calls that end normally or in a request exception
\* (an HTTP error status or a network failure) and whose renewal ran the way
\* C1 describes it (one refresh attempt, and auth() once that attempt had
\* failed): every such call whose first response is 401 issues the request
\* exactly once more.
C1_Original ==
    (/\ CallFinished /\ call.first = 401
     /\ (call.refreshErr # "" => call.auths = 1)
     /\ (err = "" \/ IsRequestException(err))) =>
        /\ call.refreshes = 1
        /\ call.auths <= 1
        /\ call.issued = 2

\* C1 amended: within one safe_api_call the request is issued at most twice;
\* a first 401 leads to exactly one refresh_tokens attempt and to auth() only
\* if that attempt raised a request exception; the request is issued a second
\* time exactly when that renewal succeeded (otherwise the renewal's error ends
\* the call without a second issue); a 401 on the second issue ends the call
\* in error with no further refresh, re-auth or request.
C1_RetryOnce ==
    /\ call.issued <= 2
    /\ call.refreshes <= 1
    /\ call.auths <= 1
    /\ (call.auths = 1 => call.refreshes = 1 /\ IsRequestException(call.refreshErr))
    /\ (call.refreshes = 1 => call.first = 401)
    /\ (call.issued = 2 => call.refreshes = 1)
    /\ (call.st = "send" /\ call.issued = 1 =>
            call.refreshes = 1 /\ tokLog.outcome = "ok" /\ call.max_retries = 0)
    /\ (CallFinished /\ call.first = 401 =>
            /\ call.refreshes = 1
            /\ (call.issued = 2 <=> tokLog.outcome = "ok"))
    /\ (call.issued = 2 /\ call.last = 401 =>
            call.st = "err" /\ pc = "aborted" /\ err = "HTTPError")

\* a 401, a failed refresh, a successful re-auth and a second 401
C1_Witness ==
    /\ call.first = 401 /\ call.last = 401 /\ call.issued = 2
    /\ call.refreshes = 1 /\ call.auths = 1 /\ call.st = "err"

\* C2 as stated: whenever the refresh attempt of a call failed, for whatever
\* reason, the call falls back to auth(); the failure reaches the caller only
\* after auth() was tried.
C2_Original ==
    (call.refreshErr # "" /\ call.st # "reauth") => call.auths = 1

\* C3: a response with an error status other than 401 ends the call in error
\* at once: the run is aborted with the HTTP error, no refresh or auth was
\* called since the request was issued, TOKEN_STORE is as it was when the
\* request was issued, and a first such response leaves the request issued once.
C3_Non401Propagates ==
    Non401Error(call.last) =>
        /\ call.st = "err" /\ pc = "aborted" /\ err = "HTTPError"
        /\ TOKEN_STORE = sent.store
        /\ ops.auth = sent.auth /\ ops.refresh = sent.refresh
        /\ (Non401Error(call.first) =>
                call.issued = 1 /\ call.refreshes = 0 /\ call.auths = 0)

\* a 500 on the first issue, and a 404 on the retry after a renewal
C3_Witness ==
    \/ call.first = 500 /\ call.issued = 1 /\ pc = "aborted"
    \/ call.first = 401 /\ call.last = 404 /\ call.issued = 2 /\ pc = "aborted"

-----------------------------------------------------------------------------
(* Properties of the token store *)

\* C4 as stated: in every state both fields of TOKEN_STORE were written by the
\* same token response (or are both unset).
C4_Original == issuedBy.access = issuedBy.refresh

\* C5 as stated: after a failed auth() or refresh_tokens() both fields of
\* TOKEN_STORE hold the values they held before the call.
C5_Original ==
    (tokLog.op # "none" /\ tokLog.outcome # "ok") => TOKEN_STORE = tokLog.before

-----------------------------------------------------------------------------
(* Properties of find_or_upload_file *)

Threshold == 50 * 1024 * 1024
Uploaded == pc = "resolved" /\ ~reused

\* C7: when find_or_upload_file uploads, the size alone decides the transport:
\* up to 50 MB inclusive exactly one HTTP upload, no SFTP upload, no reflection
\* poll, and the id returned is the one the upload response carries; above
\* 50 MB no HTTP upload, and the SFTP upload followed by the reflection poll.
C7_TransportBySize ==
    /\ (file_size <= Threshold => ops.sftp = 0 /\ ops.poll = 0)
    /\ (file_size > Threshold => ops.http = 0 /\ created = <<>>)
    /\ (Uploaded /\ file_size <= Threshold =>
            /\ ops.http = 1
            /\ Len(created) = 1 /\ file_id = created[1].id)
    /\ (Uploaded /\ file_size > Threshold =>
            ops.sftp = 1 /\ ops.poll >= 1 /\ start >= 0 /\ reflectAt >= start)

\* a file of exactly 50 MB uploaded over HTTP
C7_Witness ==
    /\ Uploaded /\ file_size = Threshold
    /\ ops.http = 1 /\ file_id = NewId

\* the created_at values of the records before the run
Stamps == { files[i].created_at : i \in 1..Len(files) }

\* C8: with check_exists set and at least one matching record, no upload of
\* either kind happens and the id returned is that of a matching record with
\* the maximum created_at.
C8_ReuseNewest ==
    (check_exists /\ files # <<>>) =>
        /\ ops.http = 0 /\ ops.sftp = 0 /\ ops.poll = 0
        /\ pc \in {"start", "resolve", "find_existing", "resolved", "aborted"}
        /\ (pc = "resolved" =>
                /\ reused
                /\ \E i \in 1..Len(files) :
                      /\ files[i].id = file_id
                      /\ \A t \in Stamps : t <= files[i].created_at)

\* the newest record is not the first one of the response
C8_Witness ==
    /\ check_exists /\ pc = "resolved" /\ reused
    /\ Len(files) = 2 /\ files[1].created_at < files[2].created_at
    /\ file_id = files[2].id

\* C9: without check_exists the server is never asked for existing files; with
\* check_exists and an empty lookup result the run goes on to the size test
\* in the state it would have without check_exists (no id, nothing uploaded,
\* no error).
C9_NoMatchUploads ==
    /\ [](~check_exists => ops.find_existing = 0)
    /\ [][(pc = "find_existing" /\ call.st = "ok" /\ call.resp = <<>>) =>
            (pc' = "measure" /\ file_id' = 0 /\ ~reused' /\ err' = ""
             /\ ops'.http = 0 /\ ops'.sftp = 0)]_vars

\* the lookup found nothing and the file was then uploaded
C9_Witness ==
    /\ check_exists /\ files = <<>> /\ ops.find_existing = 1
    /\ Uploaded

\* C10 as stated: one SFTP upload with the configured folder and the base
\* name, polled afterwards; the reflection timeout is raised only if the file
\* did not become visible inside the 300 s window.
C10_Original ==
    /\ ops.sftp <= 1
    /\ (ops.poll > 0 => ops.sftp = 1)
    /\ \A i \in 1..Len(sftpArgs) :
          sftpArgs[i] = [remote_filename |-> "sample.vcf",
                         sftp_folder |-> "octopod_cli_uploads"]
    /\ (pc = "resolved" /\ ops.poll > 0 => Reflected(now) \/ files # <<>>)
    /\ (err = "ReflectionTimeout" => ~(reflectAt < start + 300))

-----------------------------------------------------------------------------
(* Properties of the three waits *)

Max(a, b) == IF a >= b THEN a ELSE b

\* the deadline of the wait that started last
ReflectDeadline == start + SFTP_REFLECTION_TIMEOUT_SEC
WaitDeadline == start + TIMEOUT_MINUTES * 60

\* the wait has just returned and its caller has not gone on yet
AppearReturned == pc = "resolved" /\ ops.poll > 0
ValidationReturned == pc = "submitting" /\ call.st = "send" /\ call.issued = 0
CompletionReturned == pc = "download" /\ downloads = <<>>

\* C11 as stated: a state that becomes ready before the deadline of its wait
\* and stays ready never ends in the timeout outcome, and the wait returns at
\* most one poll interval after the state became ready (the checks of this
\* specification take no time).
C11_Original ==
    /\ (err = "ReflectionTimeout" => ~(reflectAt < ReflectDeadline))
    /\ (err = "ValidationTimeout" =>
            ~(srv.validAt < WaitDeadline /\ IsValidated(srv.verdict)))
    /\ (err = "OrderTimeout" =>
            ~(srv.doneAt < WaitDeadline /\ IsSuccess(srv.final)))
    /\ (AppearReturned /\ files = <<>> =>
            now <= Max(reflectAt, start) + SFTP_REFLECTION_POLL_SEC)
    /\ (ValidationReturned => now <= Max(srv.validAt, start) + poll_interval)
    /\ (CompletionReturned => now <= Max(srv.doneAt, start) + poll_interval)

InAppearWait == pc \in {"poll_test", "poll_find"}

\* C12: every wait ends. A timeout is raised only once the timeout has elapsed
\* and at most one poll interval later (checks take no time here), and a state
\* that is never ready is never returned as ready.
C12_WaitsTerminate ==
    /\ [](err = "ReflectionTimeout" =>
             /\ now - start >= SFTP_REFLECTION_TIMEOUT_SEC
             /\ now - start <= SFTP_REFLECTION_TIMEOUT_SEC + SFTP_REFLECTION_POLL_SEC)
    /\ [](err \in {"ValidationTimeout", "OrderTimeout"} =>
             /\ now - start > TIMEOUT_MINUTES * 60
             /\ now - start <= TIMEOUT_MINUTES * 60 + poll_interval)
    /\ [](reflectAt >= Never /\ files = <<>> => ~AppearReturned)
    /\ [](srv.validAt >= Never => ops.submit = 0)
    /\ [](srv.doneAt >= Never => pc \notin {"download", "downloading", "done"})
    /\ (InAppearWait ~> ~InAppearWait)
    /\ (pc = "validating" ~> pc # "validating")
    /\ (pc = "order_wait" ~> pc # "order_wait")

\* the order never became terminal and the completion wait ran into its timeout
C12_Witness ==
    /\ err = "OrderTimeout"
    /\ srv.doneAt >= Never
    /\ ops.osleep > 0

-----------------------------------------------------------------------------
(* Properties of wait_for_order_completion and wait_for_file_validation *)

\* a status check of the completion wait has returned its record
OrderObserved == pc = "order_wait" /\ call.st = "ok" /\ call.resp # <<>>
SawFailure == seen.order # <<>> /\ seen.order[1].status \in FailureStatuses

\* C13: the check that observes Failed or Canceled raises the order failure
\* there and then, without a sleep or a further request, also after the
\* deadline; such an order never ends in the timeout error or in a download.
C13_FailureRaisesAtOnce ==
    /\ [][OrderObserved /\ call.resp[1].status \in FailureStatuses =>
             /\ err' = "OrderFailed"
             /\ pc' = "aborted"
             /\ now' = now
             /\ ops' = ops /\ call' = call]_vars
    /\ [](SawFailure =>
             /\ err = "OrderFailed"
             /\ pc = "aborted"
             /\ ops.download = 0 /\ downloads = <<>>)

\* a canceled order observed after the deadline of the wait
C13_Witness ==
    /\ SawFailure
    /\ seen.order[1].status = "Canceled"
    /\ err = "OrderFailed"
    /\ now > WaitDeadline

\* a status check of the validation wait has returned its record
FileObserved == pc = "validating" /\ call.st = "ok" /\ call.resp # <<>>
AllThree(rec) ==
    /\ rec.check_completed = TRUE
    /\ rec.acceptable = TRUE
    /\ rec.amount_of_samples >= 1

\* C14: the validation wait returns (and submit_order is called) at a check
\* exactly if the record of that check is completed, acceptable and has
\* samples; an order is only ever submitted for such a last observed record.
C14_ValidatedIffAllThree ==
    /\ [][FileObserved =>
             (pc' = "submitting" /\ ops'.submit = ops.submit + 1
                 <=> AllThree(call.resp[1]))]_vars
    /\ [][ops'.submit # ops.submit => FileObserved /\ AllThree(call.resp[1])]_vars
    /\ [](ops.submit > 0 => seen.file # <<>> /\ AllThree(seen.file[1]))

\* the wait returned after at least one sleep
C14_Witness ==
    /\ ValidationReturned
    /\ ops.vsleep > 0
    /\ AllThree(seen.file[1])

\* the number of checks at start, start + interval, ... served before time t
ChecksBefore(t) ==
    IF t <= start THEN 0 ELSE (t - start + poll_interval - 1) \div poll_interval

\* C15: the completion wait returns at a check exactly if that check observed
\* Completed or Reports failed, and it returns the result_types of that record;
\* after k non-terminal observations it has made k + 1 checks and slept k times.
C15_ReturnsOnSuccess ==
    /\ [][OrderObserved =>
             (pc' = "download" <=> call.resp[1].status \in SuccessStatuses)]_vars
    /\ [][result_types_raw' # result_types_raw \/ (pc = "order_wait" /\ pc' = "download") =>
             /\ OrderObserved
             /\ result_types_raw' = call.resp[1].result_types]_vars
    /\ [](CompletionReturned =>
             /\ seen.order[1].status \in SuccessStatuses
             /\ seen.order[1].status = srv.final
             /\ result_types_raw = seen.order[1].result_types
             /\ result_types_raw = srv.rtypes
             /\ ops.nonterminal = ChecksBefore(srv.doneAt)
             /\ ops.order = ops.nonterminal + 1
             /\ ops.osleep = ops.nonterminal
             /\ now = start + ops.osleep * poll_interval)

\* two non-terminal statuses, then Reports failed with a non-empty list
C15_Witness ==
    /\ CompletionReturned
    /\ ops.nonterminal = 2
    /\ ops.order = 3
    /\ seen.order[1].status = "Reports failed"
    /\ result_types_raw # <<>>

-----------------------------------------------------------------------------
(* Properties of main and process_order *)

\* the phase the run is in: 0 Start, 1 Authenticated, 2 FileResolved,
\* 3 FileValidated, 4 OrderSubmitted, 5 OrderCompleted, 6 Done
Phase(p) ==
    CASE p = "start" -> 0
      [] p \in {"resolve", "find_existing", "measure", "http_upload", "sftp",
                "poll_test", "poll_find"} -> 1
      [] p \in {"resolved", "validating"} -> 2
      [] p = "submitting" -> 3
      [] p = "order_wait" -> 4
      [] p \in {"download", "downloading"} -> 5
      [] p = "done" -> 6
      [] OTHER -> -1

FileOps == ops.find_existing + ops.http + ops.sftp + ops.poll

\* C16: the run moves through the phases in order, one at a time; file lookups
\* and uploads need a successful authentication, the order a validated file
\* (reused or uploaded), downloads a successfully completed order; one order
\* per run.
C16_PhasesInOrder ==
    /\ [][pc' # "aborted" => Phase(pc') \in {Phase(pc), Phase(pc) + 1}]_vars
    /\ [](FileOps > 0 => tokLog.op # "none" /\ nIssued >= 1)
    /\ [](ops.validate > 0 => file_id # 0)
    /\ [](ops.submit > 0 =>
             /\ file_id # 0
             /\ ops.validate > 0
             /\ seen.file # <<>> /\ AllThree(seen.file[1]))
    /\ [](ops.order > 0 => ops.submit = 1)
    /\ [](ops.download > 0 \/ pc \in {"download", "downloading", "done"} =>
             /\ ops.order > 0
             /\ seen.order # <<>> /\ seen.order[1].status \in SuccessStatuses)
    /\ [](ops.submit <= 1)
    /\ [](pc = "done" => ops.submit = 1 /\ err = "")

\* a run that reused an existing file and went through every phase
C16_Witness ==
    /\ pc = "done"
    /\ reused
    /\ ops.vsleep > 0
    /\ ops.submit = 1
    /\ ops.download > 0

\* a component fails in this step, before the download phase
TokenFailure == pc = "start" /\ tokLog' # tokLog /\ tokLog'.outcome # "ok"
RequestFailure == Phase(pc) \in 1..4 /\ call.st # "err" /\ call'.st = "err"
HardStatus == Phase(pc) \in 1..4 /\ call.st = "send" /\ call'.st # "send"
                /\ call'.last \in {404, 500}
WindowClosed == pc = "poll_test" /\ now - start >= SFTP_REFLECTION_TIMEOUT_SEC
NotFound == pc \in {"validating", "order_wait"} /\ call.st = "ok" /\ call.resp = <<>>
BudgetSpent ==
    /\ now - start > TIMEOUT_MINUTES * 60
    /\ \/ FileObserved /\ ~AllThree(call.resp[1])
       \/ OrderObserved /\ call.resp[1].status \in NonTerminal
OrderFailure == OrderObserved /\ call.resp[1].status \in FailureStatuses

EarlyErrors == {"ReflectionTimeout", "SSHException", "ValidationTimeout", "FileNotFound",
                "OrderNotFound", "OrderFailed", "OrderTimeout"}

\* C17: a failure before the download phase ends the run in the error state
\* at that step; from there nothing happens any more, so no later phase is
\* entered, nothing is retried and the run is not Done.
C17_FailureAborts ==
    /\ [][TokenFailure \/ RequestFailure \/ HardStatus \/ WindowClosed \/ NotFound
             \/ BudgetSpent \/ OrderFailure
          => pc' = "aborted" /\ err' # ""]_vars
    /\ [][pc # "aborted"]_vars
    /\ [](err # "" <=> pc = "aborted")
    /\ [](err \in {"ReflectionTimeout", "SSHException"} => ops.validate = 0)
    /\ [](err \in {"ReflectionTimeout", "SSHException", "ValidationTimeout", "FileNotFound"}
             => ops.submit = 0 /\ ops.order = 0)
    /\ [](err \in EarlyErrors => ops.download = 0 /\ downloads = <<>>)
    /\ [](pc = "aborted" /\ call.kind \notin {"download"} => ops.download = 0)

\* the order submission was answered with status 500
C17_Witness ==
    /\ pc = "aborted"
    /\ err = "HTTPError"
    /\ call.kind = "submit"
    /\ call.last = 500
    /\ ops.order = 0

-----------------------------------------------------------------------------
(* Properties of the download loop *)

\* the result types of the attempts made so far, in order
RECURSIVE Attempted(_)
Attempted(ds) == IF ds = <<>> THEN <<>> ELSE <<Head(ds).rt>> \o Attempted(Tail(ds))

\* the loop has been entered
InDownloadPhase == ops.download > 0

\* C18 as stated: once the order completed, every normalized result type gets
\* one download attempt, in list order; a failed download, whatever its
\* failure, is skipped and never ends the run, which reaches Done.
C18_Original ==
    /\ (InDownloadPhase => pc # "aborted")
    /\ (Phase(pc) \in {5, 6} =>
            Attempted(downloads) \o remaining = ParseTypes(result_types_raw))
    /\ (Phase(pc) \in {5, 6} =>
            ops.download = Len(downloads) + (IF pc = "downloading" THEN 1 ELSE 0))
    /\ (pc = "done" => remaining = <<>>)

\* the fallback auth() of a renewal was the last token call and it failed
ReauthRejected ==
    /\ call.auths > 0
    /\ call.st = "err"
    /\ tokLog.op = "auth"
    /\ tokLog.outcome # "ok"

\* C19 as stated: every error but the failure of one download ends the run,
\* also in the download phase; a rejected fallback auth() during a download
\* ends the run and is not skipped.
C19_Original ==
    /\ (call.kind = "download" /\ ReauthRejected => pc = "aborted" /\ err # "")
    /\ (call.kind # "download" /\ call.st = "err" => pc = "aborted" /\ err # "")
    /\ (err # "" => pc = "aborted")

\* an entry that is a string or a dict with the key "type"
Kept(item) == item.kind = "str" \/ (item.kind = "dict" /\ item.has_type)
Normalized(raw) ==
    LET k == SelectSeq(raw, Kept) IN [i \in 1..Len(k) |-> k[i].val]

\* C20: the result types downloaded are the kept entries of the list the
\* completion wait returned, each as its string or its "type" value, in the
\* order of that list; the other entries get no attempt and do not end the run.
C20_DownloadsNormalized ==
    /\ (Phase(pc) \in {5, 6} =>
            /\ Attempted(downloads) \o remaining = Normalized(result_types_raw)
            /\ ops.download <= Len(Normalized(result_types_raw)))
    /\ (pc = "done" =>
            /\ Attempted(downloads) = Normalized(result_types_raw)
            /\ ops.download = Len(Normalized(result_types_raw)))

\* a list with a string, a number and a labeled dict, downloaded to the end
C20_Witness ==
    /\ pc = "done"
    /\ result_types_raw = << StrItem("RAW_VCF"), OtherItem, DictItem("SUMMARY_CHROMS") >>
    /\ Attempted(downloads) = << "RAW_VCF", "SUMMARY_CHROMS" >>

-----------------------------------------------------------------------------
(* Properties of the loops side by side *)

BothEnded == side.appear.out # "" /\ side.validation.out # ""

\* C21 as stated: on the same interval, timeout and check results the two
\* loops check at the same instants, equally often, and end the same way.
C21_Original ==
    BothEnded =>
        /\ side.appear.out = side.validation.out
        /\ side.appear.at = side.validation.at

-----------------------------------------------------------------------------
(* Properties of the bulk path *)

\* sftp_upload has been called and the run is past it
PastSftp == ops.sftp > 0

\* C22: the SSH connection lives inside sftp_upload only. Whenever a reflection
\* check, a poll sleep or a later phase is in progress it is closed; once
\* established it is closed whether the put succeeded or folder creation or
\* the put failed; mkdir is called only after chdir failed.
C22_SessionScoped ==
    /\ (ops.sftp = 0 => ssh = NoSession)
    /\ (PastSftp /\ pc # "aborted" => ssh.state = "closed" /\ ssh.puts = 1)
    /\ (Phase(pc) >= 2 \/ InAppearWait => ssh.state # "open")
    /\ (ssh.connected => ssh.state = "closed")
    /\ (~ssh.connected => ssh.state = "none" /\ ssh.mkdirs = 0 /\ ssh.puts = 0)
    /\ (ssh.mkdirs > 0 => ssh.chdir_failed)
    /\ (ssh.chdir_failed => ssh.mkdirs = 1)

\* the folder had to be created and the put failed afterwards
C22_Witness ==
    /\ pc = "aborted"
    /\ err = "IOError"
    /\ ssh.mkdirs = 1
    /\ ssh.puts = 1
    /\ ssh.state = "closed"

\* C23 as stated: the request re-issued after a 401 carries the payload of the
\* first attempt, for every caller, the HTTP upload included.
C23_Original ==
    Len(call.bodies) = 2 => call.bodies[2] = call.bodies[1]

\* C24 as stated: the id the reflection poll returns is the id of the record
\* the server made for this run's SFTP upload, never that of a record that
\* was there before the upload.
C24_Original ==
    AppearReturned =>
        /\ file_id = NewRecord.id
        /\ \A i \in 1..Len(files) : files[i].id # file_id

-----------------------------------------------------------------------------
(* Properties of the checks that find a rejected file or no record *)

\* the server's check is over and the file was not accepted
Rejected(rec) == rec.check_completed /\ (~rec.acceptable \/ rec.amount_of_samples = 0)
WithinBudget == now - start <= TIMEOUT_MINUTES * 60

\* C25: a check that observes a rejected file inside the budget is followed by
\* a sleep of poll_interval and the next check; the loop itself ends only with
\* ready, not found or the timeout (an error of the status request ends the
\* run from inside the request).
C25_RejectedKeepsPolling ==
    /\ [][FileObserved /\ Rejected(call.resp[1]) /\ WithinBudget =>
             /\ pc' = "validating"
             /\ now' = now + poll_interval
             /\ ops'.validate = ops.validate + 1
             /\ err' = ""]_vars
    /\ [][pc = "validating" /\ pc' # "validating" =>
             \/ pc' = "submitting" /\ AllThree(call.resp[1])
             \/ err' = "FileNotFound" /\ call.resp = <<>>
             \/ err' = "ValidationTimeout" /\ ~WithinBudget
             \/ call'.st = "err"]_vars
    /\ [](seen.file # <<>> /\ Rejected(seen.file[1]) /\ pc = "aborted" /\ call.st = "ok"
             => err = "ValidationTimeout")

\* a rejected file, polled until the budget was spent
C25_Witness ==
    /\ err = "ValidationTimeout"
    /\ seen.file # <<>>
    /\ Rejected(seen.file[1])
    /\ ops.vsleep > 1

\* a check of the reflection wait found no record of that name
AppearEmpty == pc = "poll_find" /\ call.st = "ok" /\ call.resp = <<>>

\* C26: a status check of the validation wait or the completion wait that
\* finds no record ends the run with the not-found error at that check, with
\* no sleep and no further request, whatever earlier checks found; an empty
\* result in the reflection wait leads to a sleep and the next loop test.
C26_NotFoundAborts ==
    /\ [][NotFound =>
             /\ pc' = "aborted"
             /\ err' = (IF pc = "validating" THEN "FileNotFound" ELSE "OrderNotFound")
             /\ now' = now
             /\ ops' = ops /\ call' = call]_vars
    /\ [][AppearEmpty =>
             /\ pc' = "poll_test"
             /\ now' = now + SFTP_REFLECTION_POLL_SEC
             /\ err' = "" /\ file_id' = file_id]_vars
    /\ [](err = "FileNotFound" => ops.submit = 0 /\ seen.file = <<>>)
    /\ [](err = "OrderNotFound" => ops.download = 0 /\ seen.order = <<>>)

\* the record was there at the first checks of the validation wait, then gone;
\* before that, the reflection wait had slept on empty results
C26_Witness ==
    /\ err = "FileNotFound"
    /\ ops.vsleep > 0
    /\ ops.poll > 1
    /\ WithinBudget

====
